---- MODULE Spec2Model ----
(***************************************************************************)
(* Model of the standard-library provisioner (go/private/actions/stdlib.bzl)*)
(* and of the builders' environment context and replication engine         *)
(* (go/tools/builders/env.go).                                              *)
(*                                                                         *)
(* Every string of the program is a sequence of one-character strings, so  *)
(* that slicing, prefix tests and joins are computed as the code computes  *)
(* them.  Enumerations (goos, goarch, link mode, mnemonics, environment    *)
(* keys) are TLA+ strings.                                                  *)
(***************************************************************************)
EXTENDS Integers, Sequences, FiniteSets, TLC

VARIABLES
    go,         \* stdlib.bzl: the context object handed to emit_stdlib
    actions,    \* stdlib.bzl: the actions registered through go.actions, in order
    stdlib,     \* stdlib.bzl: source["stdlib"], the GoStdLib provider (or NoStdLib)
    fs,         \* the file system: cleaned path -> node, for the paths that exist
    e,          \* env.go: the env struct of one builder invocation
    returns,    \* env.go: what each workDir call returned (path, err), in call order
    cleanups,   \* env.go: the cleanup closure each workDir call returned, in call order
    created,    \* env.go: the directories ioutil.TempDir created for this env
    logged,     \* env.go: the WORK= lines written by log.Printf
    invoked,    \* env.go: the cleanup the caller invoked last, with the file system before it
    archive,    \* env.go: the entries of the zip file named by replicateFromZip, in order
    rep,        \* env.go: the last replicate call: its options, result and what it wrote
    ncalls,     \* env.go: how many replicate calls were made
    argv,       \* env.go: args, the argument list handed to the builder
    flags,      \* env.go: the flags handed to absArgs
    cwd,        \* what os.Getwd returns: the working directory, or an error
    ret         \* env.go: the last call on args: its input and what it returned

stdlibVars == <<go, actions, stdlib>>

workVars == <<e, returns, cleanups, created, logged, invoked>>

repVars == <<archive, rep, ncalls>>

argVars == <<argv, flags, cwd, ret>>

vars ==
    <<go, actions, stdlib, fs, e, returns, cleanups, created, logged, invoked,
      archive, rep, ncalls, argv, flags, cwd, ret>>

----------------------------------------------------------------------------
(* Strings                                                                 *)

Slash == <<"/">>

\* Starlark sep.join(list)
RECURSIVE join(_, _)
join(sep, list) ==
    IF list = <<>> THEN <<>>
    ELSE IF Len(list) = 1 THEN list[1]
    ELSE list[1] \o sep \o join(sep, Tail(list))

\* Starlark s[n:]
sliceFrom(s, n) == IF n >= Len(s) THEN <<>> ELSE SubSeq(s, n + 1, Len(s))

\* strings.HasPrefix / Starlark startswith
HasPrefix(s, prefix) ==
    /\ Len(prefix) <= Len(s)
    /\ SubSeq(s, 1, Len(prefix)) = prefix

\* index of the last "/" of s, 0 when there is none
LastSlash(s) ==
    LET idx == {i \in 1..Len(s) : s[i] = "/"}
    IN  IF idx = {} THEN 0 ELSE CHOOSE i \in idx : \A j \in idx : j <= i

\* Bazel File.dirname: the path of the directory containing the file
dirname(f) ==
    LET n == LastSlash(f.path)
    IN  IF n = 0 THEN <<>> ELSE SubSeq(f.path, 1, n - 1)

File(path) == [path |-> path]

----------------------------------------------------------------------------
(* Paths (package path/filepath, Unix) and the file system (package os)    *)

\* index of the first "/" of s, 0 when there is none
FirstSlash(s) ==
    LET idx == {i \in 1..Len(s) : s[i] = "/"}
    IN  IF idx = {} THEN 0 ELSE CHOOSE i \in idx : \A j \in idx : i <= j

\* strings.Split(s, "/")
RECURSIVE Split(_)
Split(s) ==
    LET n == FirstSlash(s)
    IN  IF n = 0 THEN <<s>>
        ELSE <<SubSeq(s, 1, n - 1)>> \o Split(SubSeq(s, n + 1, Len(s)))

RECURSIVE CleanFold(_, _, _)
CleanFold(comps, out, rooted) ==
    IF comps = <<>> THEN out
    ELSE LET c == Head(comps)
             rest == Tail(comps)
         IN  IF c = <<>> \/ c = <<".">> THEN CleanFold(rest, out, rooted)
             ELSE IF c = <<".", ".">>
             THEN IF out # <<>> /\ out[Len(out)] # <<".", ".">>
                  THEN CleanFold(rest, SubSeq(out, 1, Len(out) - 1), rooted)
                  ELSE IF rooted THEN CleanFold(rest, out, rooted)
                  ELSE CleanFold(rest, Append(out, c), rooted)
             ELSE CleanFold(rest, Append(out, c), rooted)

\* filepath.Clean
Clean(s) ==
    LET rooted == s # <<>> /\ s[1] = "/"
        body == join(Slash, CleanFold(Split(s), <<>>, rooted))
    IN  IF rooted THEN Slash \o body
        ELSE IF body = <<>> THEN <<".">> ELSE body

\* filepath.Join of two elements
Join2(a, b) ==
    IF a = <<>> /\ b = <<>> THEN <<>>
    ELSE IF a = <<>> THEN Clean(b)
    ELSE IF b = <<>> THEN Clean(a)
    ELSE Clean(a \o Slash \o b)

\* filepath.Dir
Dir(p) == Clean(SubSeq(p, 1, LastSlash(p)))

\* filepath.Rel(base, target) for a target found by walking base
Rel(base, target) ==
    IF target = base THEN <<".">> ELSE sliceFrom(target, Len(base) + 1)

\* the path itself and the directories above it, the working directory and
\* the root directory excepted (these always exist)
Ancestors(p) ==
    IF p = <<".">> \/ p = Slash THEN {}
    ELSE {SubSeq(p, 1, i - 1) : i \in {j \in 2..Len(p) : p[j] = "/"}} \cup {p}

\* p is root or lies below it
IsUnder(p, root) == p = root \/ HasPrefix(p, root \o Slash)

\* Directory permission bits are not tracked; a file carries its permission
\* bits and its content.
DirNode == [kind |-> "dir", content |-> <<>>, perm |-> 0]
FileNode(content, perm) == [kind |-> "file", content |-> content, perm |-> perm]

Exists(f, p) == p = <<".">> \/ p = Slash \/ p \in DOMAIN f
IsDir(f, p) == p = <<".">> \/ p = Slash \/ (p \in DOMAIN f /\ f[p].kind = "dir")

Ok(f) == [fs |-> f, err |-> FALSE]
Fail(f) == [fs |-> f, err |-> TRUE]

\* os.MkdirAll: fails when the path, or the deepest existing directory above
\* it, is not a directory; nothing is created then
MkdirAll(f, p) ==
    LET anc == Ancestors(p)
    IN  IF \E a \in anc : a \in DOMAIN f /\ f[a].kind # "dir" THEN Fail(f)
        ELSE Ok([q \in DOMAIN f \cup anc |-> IF q \in DOMAIN f THEN f[q] ELSE DirNode])

Without(f, gone) == [q \in DOMAIN f \ gone |-> f[q]]

Children(f, p) == {q \in DOMAIN f : q # p /\ IsUnder(q, p)}

\* os.Remove: a file or an empty directory
Remove(f, p) ==
    IF p \notin DOMAIN f THEN Fail(f)
    ELSE IF f[p].kind = "dir" /\ Children(f, p) # {} THEN Fail(f)
    ELSE Ok(Without(f, {p}))

\* os.RemoveAll: the path and everything below it; no error when it is absent
RemoveAll(f, p) == Ok(Without(f, {q \in DOMAIN f : IsUnder(q, p)}))

----------------------------------------------------------------------------
(* Standard library provisioner: go/private/actions/stdlib.bzl             *)

\* Bounds of the modelled SDK descriptor and toolchain
NumSrcs == 2
NumCrosstool == 1

LINKMODE_NORMAL == "normal"
LinkModes == {LINKMODE_NORMAL, "pie"}
GoOses == {"linux", "darwin"}
GoArches == {"amd64", "arm64"}

Letter(i) == <<"a", "b", "c", "d", "e", "f", "g", "h">>[i]

T_out == <<"-", "o", "u", "t">>
T_race == <<"-", "r", "a", "c", "e">>
T_sdkzip == <<"-", "s", "d", "k", "z", "i", "p">>
T_cC == <<"c", "C">>
T_stdlib == <<"s", "t", "d", "l", "i", "b">>
T_shared == <<"-", "s", "h", "a", "r", "e", "d">>
N_sdkzip == <<"s", "d", "k", ".", "z", "i", "p">>
N_ROOT == <<"R", "O", "O", "T">>
N_pkg == <<"p", "k", "g">>
N_src == <<"s", "r", "c">>

NoFile == File(<<>>)
NoStdLib == [root_file |-> NoFile, libs |-> <<>>]

\* The SDK repositories the toolchain may be installed in
SdkRoots == {<<"g">>, <<"e", "/", "g">>}

SdkFile(root, rel) == File(root \o Slash \o rel)

SdkDescriptor(root, os, arch) ==
    [goos |-> os,
     goarch |-> arch,
     root_file |-> SdkFile(root, N_ROOT),
     srcs |-> [i \in 1..NumSrcs |-> SdkFile(root, <<"s", "/">> \o <<Letter(i)>>)],
     headers |-> <<SdkFile(root, <<"p", "/", "i", "/", "h">>)>>,
     tools |-> <<SdkFile(root, <<"p", "/", "t", "/", "c">>)>>,
     go |-> SdkFile(root, <<"b", "/", "g", "o">>),
     package_list |-> SdkFile(root, <<"l", "s", "t">>),
     libs |-> <<SdkFile(root, <<"p", "/", "l", ".", "a">>)>>]

Modes ==
    [goos : GoOses, goarch : GoArches, race : BOOLEAN, msan : BOOLEAN,
     pure : BOOLEAN, link : LinkModes]

CgoTools ==
    {[c_compiler_path |-> <<"c", "c">>, c_compile_options |-> <<>>,
      ld_flags |-> <<<<"-", "l", "m">>>>],
     [c_compiler_path |-> <<"x", "/", "c", "c">>,
      c_compile_options |-> <<<<"-", "O">>, <<"-", "g">>>>,
      ld_flags |-> <<<<"-", "L", "x">>, <<"-", "l", "m">>>>]}

\* "" (no packaging tool) or the packaging tool's executable
Zippers == {<<>>, <<"z", "i", "p", "p", "e", "r">>}

GoContexts ==
    {[mode |-> m,
      sdk |-> SdkDescriptor(r, os, arch),
      cgo_tools |-> cg,
      zipper |-> z,
      crosstool |-> [i \in 1..NumCrosstool |-> File(<<"c", "t", "/">> \o <<Letter(i)>>)],
      env |-> [CGO_ENABLED |-> <<"1">>, GOROOT |-> r],
      builder |-> <<"b", "u", "i", "l", "d", "e", "r">>,
      outdir |-> <<"o">>] :
        m \in Modes, r \in SdkRoots, os \in GoOses, arch \in GoArches,
        cg \in CgoTools, z \in Zippers}

\* go.declare_file / go.declare_directory / go.actions.declare_file: a new
\* output file of the rule, under the rule's output directory
declare_file(g, path) == File(g.outdir \o Slash \o path)

\* go.builder_args(go, "stdlib"): the builder's common arguments
builder_args(g, command) == <<command>>

\* mode.bzl link_mode_args: flags derived from the link mode
link_mode_args(mode) == IF mode.link = LINKMODE_NORMAL THEN <<>> ELSE <<T_shared>>

\* mode.bzl extldflags_from_cc_toolchain: the toolchain's native link flags
extldflags_from_cc_toolchain(g) == g.cgo_tools.ld_flags

\* Starlark dict.update
update(base, upd) ==
    [k \in DOMAIN base \cup DOMAIN upd |-> IF k \in DOMAIN upd THEN upd[k] ELSE base[k]]

\* go.actions.write(output, content)
WriteAction(output, content) ==
    [kind |-> "write", mnemonic |-> "FileWrite", inputs |-> <<>>,
     outputs |-> <<output>>, content |-> content, executable |-> <<>>,
     arguments |-> <<>>, env |-> << >>]

\* go.actions.run(inputs, outputs, mnemonic, executable, arguments, env)
RunAction(inputs, outputs, mnemonic, executable, arguments, env) ==
    [kind |-> "run", mnemonic |-> mnemonic, inputs |-> inputs,
     outputs |-> outputs, content |-> <<>>, executable |-> executable,
     arguments |-> arguments, env |-> env]

\* a reuse test that forgets the memory-sanitizer flag
should_use_sdk_stdlib_NoMsan(g) ==
    /\ g.mode.goos = g.sdk.goos
    /\ g.mode.goarch = g.sdk.goarch
    /\ ~g.mode.race
    /\ ~g.mode.pure
    /\ g.mode.link = LINKMODE_NORMAL

should_use_sdk_stdlib(g) ==
    /\ g.mode.goos = g.sdk.goos
    /\ g.mode.goarch = g.sdk.goarch
    /\ ~g.mode.race
    /\ ~g.mode.msan
    /\ ~g.mode.pure
    /\ g.mode.link = LINKMODE_NORMAL

sdk_stdlib(g) == [root_file |-> g.sdk.root_file, libs |-> g.sdk.libs]

\* stdlib.bzl line 81
all_sdk_inputs(g) ==
    g.sdk.srcs \o g.sdk.headers \o g.sdk.tools \o <<g.sdk.go, g.sdk.root_file>>

\* an environment that leaves the native flags out
stdlib_env_NoFlags(g) ==
    IF g.mode.pure
    THEN update(g.env, [CGO_ENABLED |-> <<"0">>])
    ELSE update(g.env,
                [CGO_ENABLED |-> <<"1">>,
                 CC |-> g.cgo_tools.c_compiler_path,
                 CGO_CFLAGS |-> join(<<>>, g.cgo_tools.c_compile_options),
                 CGO_LDFLAGS |-> join(<<>>, extldflags_from_cc_toolchain(g))])

\* stdlib.bzl lines 70-79
stdlib_env(g) ==
    IF g.mode.pure
    THEN update(g.env, [CGO_ENABLED |-> <<"0">>])
    ELSE update(g.env,
                [CGO_ENABLED |-> <<"1">>,
                 CC |-> g.cgo_tools.c_compiler_path,
                 CGO_CFLAGS |-> join(<<" ">>, g.cgo_tools.c_compile_options),
                 CGO_LDFLAGS |-> join(<<" ">>, extldflags_from_cc_toolchain(g))])

\* a prefix length that keeps the separator
zip_prefixlen_NoSep(g) == Len(dirname(g.sdk.root_file))

\* stdlib.bzl lines 95-98: one "rel=path" entry per SDK input
zip_prefixlen(g) == Len(dirname(g.sdk.root_file)) + 1

zip_entry(g, f) == sliceFrom(f.path, zip_prefixlen(g)) \o <<"=">> \o f.path

zip_args(g, sdkzip) ==
    <<T_cC, sdkzip.path>> \o
    [i \in 1..Len(all_sdk_inputs(g)) |-> zip_entry(g, all_sdk_inputs(g)[i])]

\* stdlib.bzl lines 100-107
zip_action(g, sdkzip) ==
    RunAction(all_sdk_inputs(g), <<sdkzip>>, "GoStdlibZip", g.zipper,
              zip_args(g, sdkzip), << >>)

\* SDK inputs that keep the original files next to the archive
sdk_inputs_KeepFiles(g, sdkzip) ==
    IF g.zipper # <<>> THEN <<sdkzip>> \o all_sdk_inputs(g) ELSE all_sdk_inputs(g)

\* stdlib.bzl lines 81, 108: the SDK inputs of the GoStdlib action
sdk_inputs(g, sdkzip) == IF g.zipper # <<>> THEN <<sdkzip>> ELSE all_sdk_inputs(g)

\* stdlib.bzl lines 64-68, 109
stdlib_args(g, root_file, sdkzip) ==
    builder_args(g, T_stdlib)
    \o <<T_out, dirname(root_file)>>
    \o (IF g.mode.race THEN <<T_race>> ELSE <<>>)
    \o link_mode_args(g.mode)
    \o (IF g.zipper # <<>> THEN <<T_sdkzip, sdkzip.path>> ELSE <<>>)

\* stdlib.bzl lines 111-121
stdlib_action(g, pkg, src, root_file, sdkzip) ==
    RunAction(sdk_inputs(g, sdkzip) \o g.crosstool \o <<g.sdk.package_list>>,
              <<pkg, src>>, "GoStdlib", g.builder,
              <<>> \o stdlib_args(g, root_file, sdkzip), stdlib_env(g))

\* _build_stdlib: the actions it registers, in the order it registers them
build_stdlib_actions(g) ==
    LET pkg == declare_file(g, N_pkg)
        src == declare_file(g, N_src)
        root_file == declare_file(g, N_ROOT)
        sdkzip == declare_file(g, N_sdkzip)
    IN  <<WriteAction(root_file, <<>>)>>
        \o (IF g.zipper # <<>> THEN <<zip_action(g, sdkzip)>> ELSE <<>>)
        \o <<stdlib_action(g, pkg, src, root_file, sdkzip)>>

\* a provider that also lists the src directory as a library
build_stdlib_result_BothDirs(g) ==
    [root_file |-> declare_file(g, N_ROOT),
     libs |-> <<declare_file(g, N_pkg), declare_file(g, N_src)>>]

\* _build_stdlib: the provider it returns
build_stdlib_result(g) ==
    [root_file |-> declare_file(g, N_ROOT), libs |-> <<declare_file(g, N_pkg)>>]

\* emit_stdlib -> _stdlib_library_to_source
emit_stdlib ==
    /\ stdlib = NoStdLib
    /\ IF should_use_sdk_stdlib(go)
       THEN /\ stdlib' = sdk_stdlib(go)
            /\ actions' = actions
            /\ go' = go
       ELSE /\ stdlib' = build_stdlib_result(go)
            /\ actions' = actions \o build_stdlib_actions(go)
            /\ go' = [go EXCEPT !.env = stdlib_env(go)]
    /\ UNCHANGED <<fs, e, returns, cleanups, created, logged, invoked, repVars, argVars>>

StdlibNext == emit_stdlib


----------------------------------------------------------------------------
(* Environment context: env.workDir (go/tools/builders/env.go)             *)

\* Bounds: workDir calls per env, and names ioutil.TempDir may draw
MaxWorkDirCalls == 3
NumTempNames == 2

Digit(i) == <<"1", "2", "3", "4", "5", "6", "7", "8", "9">>[i]

\* os.TempDir()
OsTempDir == <<"/", "t", "m", "p">>

\* the prefix handed to ioutil.TempDir
WorkPrefix == <<"r", "u", "l", "e", "s", "_", "g", "o", "_", "w", "o", "r", "k", "-">>

\* ioutil.TempDir(dir, prefix): dir/prefix<random>, for a name not in use
TempDirName(dir, prefix, n) == Join2(dir, prefix \o <<Digit(n)>>)

NoFs == [q \in {} |-> DirNode]
NoInvoke == [i |-> 0, pre |-> NoFs]

\* the temporary directory, with or without a work directory left there by
\* another process
TempFs(others) ==
    [q \in {OsTempDir} \cup {TempDirName(OsTempDir, WorkPrefix, n) : n \in others} |-> DirNode]

\* envFlags: -work and -v
NewEnv(work, v) ==
    [workDirPath |-> <<>>, shouldPreserveWorkDir |-> work, verbose |-> v]

\* a test that never finds the recorded path
workDirCached_Never(env) == FALSE

\* a test that forgets the recorded path once the directory is gone
workDirCached_UnlessGone(env) == env.workDirPath # <<>> /\ Exists(fs, env.workDirPath)

\* env.go line 94
workDirCached(env) == env.workDirPath # <<>>

\* a cleanup that ignores -work
newCleanup_IgnorePreserve(env) == "removeAll"

\* env.go lines 105-109: the cleanup of the call that created the directory
newCleanup(env) == IF env.shouldPreserveWorkDir THEN "noop" ELSE "removeAll"

\* running a cleanup closure: func() {} or func() { os.RemoveAll(e.workDirPath) }
runCleanup(f, env, closure) ==
    IF closure = "removeAll" THEN RemoveAll(f, env.workDirPath).fs ELSE f

\* env.workDir
workDir ==
    /\ Len(returns) < MaxWorkDirCalls
    /\ invoked' = NoInvoke
    /\ IF workDirCached(e)
       THEN /\ returns' = Append(returns, [path |-> e.workDirPath, err |-> FALSE])
            /\ cleanups' = Append(cleanups, "noop")
            /\ UNCHANGED <<e, fs, created, logged>>
       ELSE \/ \* ioutil.TempDir fails
               /\ e' = [e EXCEPT !.workDirPath = <<>>]
               /\ returns' = Append(returns, [path |-> <<>>, err |-> TRUE])
               /\ cleanups' = Append(cleanups, "noop")
               /\ UNCHANGED <<fs, created, logged>>
            \/ \* ioutil.TempDir creates a directory
               \E n \in 1..NumTempNames :
                   LET path == TempDirName(OsTempDir, WorkPrefix, n)
                   IN  /\ ~Exists(fs, path)
                       /\ fs' = MkdirAll(fs, path).fs
                       /\ created' = created \cup {[path |-> path, existed |-> Exists(fs, path)]}
                       /\ e' = [e EXCEPT !.workDirPath = path]
                       /\ logged' = IF e.verbose THEN Append(logged, path) ELSE logged
                       /\ returns' = Append(returns, [path |-> path, err |-> FALSE])
                       /\ cleanups' = Append(cleanups, newCleanup(e))
    /\ UNCHANGED <<stdlibVars, repVars, argVars>>

\* the caller runs a cleanup function workDir returned to it
InvokeCleanup ==
    \E i \in 1..Len(cleanups) :
        /\ invoked' = [i |-> i, pre |-> fs]
        /\ fs' = runCleanup(fs, e, cleanups[i])
        /\ UNCHANGED <<e, returns, cleanups, created, logged, stdlibVars, repVars, argVars>>

\* the caller puts a file below the work directory it was given
CallerWrites ==
    \E i \in 1..Len(returns) :
        LET sub == Join2(returns[i].path, <<"p">>)
            file == Join2(sub, <<"x">>)
        IN  /\ ~returns[i].err
            /\ IsDir(fs, returns[i].path)
            /\ ~Exists(fs, file)
            /\ fs' = [q \in DOMAIN fs \cup {sub, file} |->
                        IF q = file THEN FileNode(<<"x">>, 420)
                        ELSE IF q = sub THEN DirNode ELSE fs[q]]
            /\ invoked' = NoInvoke
            /\ UNCHANGED <<e, returns, cleanups, created, logged, stdlibVars, repVars, argVars>>

WorkNext == workDir \/ InvokeCleanup \/ CallerWrites

----------------------------------------------------------------------------
(* Replication engine: replicate (go/tools/builders/env.go)                *)

\* Bound: replicate calls per behaviour
MaxCalls == 2

\* replicateMode
copyMode == 0
hardlinkMode == 1
softlinkMode == 2

\* characters in ASCII order, for sorting directory entries
Alphabet ==
    <<"-", ".", "0", "1", "2", "3", "4", "5", "6", "7", "8", "9", "A", "B", "C",
      "D", "E", "F", "G", "H", "I", "J", "K", "L", "M", "N", "O", "P", "Q", "R",
      "S", "T", "U", "V", "W", "X", "Y", "Z", "_", "a", "b", "c", "d", "e", "f",
      "g", "h", "i", "j", "k", "l", "m", "n", "o", "p", "q", "r", "s", "t", "u",
      "v", "w", "x", "y", "z">>

CharRank(c) == CHOOSE i \in 1..Len(Alphabet) : Alphabet[i] = c

\* a < b as strings
RECURSIVE StrLess(_, _)
StrLess(a, b) ==
    IF b = <<>> THEN FALSE
    ELSE IF a = <<>> THEN TRUE
    ELSE IF a[1] = b[1] THEN StrLess(Tail(a), Tail(b))
    ELSE CharRank(a[1]) < CharRank(b[1])

\* a before b, element by element
RECURSIVE ElemsLess(_, _)
ElemsLess(a, b) ==
    IF b = <<>> THEN FALSE
    ELSE IF a = <<>> THEN TRUE
    ELSE IF a[1] = b[1] THEN ElemsLess(Tail(a), Tail(b))
    ELSE StrLess(a[1], b[1])

\* filepath.Walk visits the names of each directory in lexical order
WalkLess(p, q) == ElemsLess(Split(p), Split(q))

RECURSIVE WalkSorted(_)
WalkSorted(S) ==
    IF S = {} THEN <<>>
    ELSE LET first == CHOOSE p \in S : \A q \in S \ {p} : WalkLess(p, q)
         IN  <<first>> \o WalkSorted(S \ {first})

\* the non-directories filepath.Walk(src, ...) hands to its callback, in order
WalkFiles(f, src) ==
    WalkSorted({p \in DOMAIN f : p # src /\ IsUnder(p, src) /\ f[p].kind # "dir"})

\* the result of a step of a replication: the file system, whether an error
\* is returned, and the files written so far
Res(f, err, wrote) == [fs |-> f, err |-> err, wrote |-> wrote]

\* the owner-write bit of a permission
Writable(perm) == (perm \div 128) % 2 = 1

\* replicate's default configuration with the options applied
Config(paths, zip) ==
    [removeFirst |-> TRUE, fileMode |-> copyMode, dirMode |-> copyMode,
     paths |-> paths, zip |-> zip]

\* replicatePrepare
replicatePrepare(f, dst, config) ==
    LET made == MkdirAll(f, Dir(dst))
    IN  IF made.err THEN Fail(f)
        ELSE IF config.removeFirst THEN Ok(Remove(made.fs, dst).fs)
        ELSE Ok(made.fs)

\* a createFile that leaves the permission os.Create gave
createFile_NoChmod(f, content, mode, dst, priv) ==
    IF ~IsDir(f, Dir(dst)) THEN Fail(f)
    ELSE IF dst \in DOMAIN f /\ f[dst].kind = "dir" THEN Fail(f)
    ELSE IF dst \in DOMAIN f /\ ~Writable(f[dst].perm) /\ ~priv THEN Fail(f)
    ELSE Ok([q \in DOMAIN f \cup {dst} |->
                IF q = dst
                THEN FileNode(content, IF dst \in DOMAIN f THEN f[dst].perm ELSE 420)
                ELSE f[q]])

\* createFile: os.Create (fails on a directory, below a missing directory,
\* and on a read-only file unless the process is privileged), io.Copy,
\* os.Chmod(dst, stat.Mode())
createFile(f, content, mode, dst, priv) ==
    IF ~IsDir(f, Dir(dst)) THEN Fail(f)
    ELSE IF dst \in DOMAIN f /\ f[dst].kind = "dir" THEN Fail(f)
    ELSE IF dst \in DOMAIN f /\ ~Writable(f[dst].perm) /\ ~priv THEN Fail(f)
    ELSE Ok([q \in DOMAIN f \cup {dst} |->
                IF q = dst THEN FileNode(content, mode) ELSE f[q]])

\* os.Link: the old name must be a file, the new name must not exist
Link(f, src, dst) ==
    IF src \notin DOMAIN f \/ f[src].kind = "dir" \/ dst \in DOMAIN f
       \/ ~IsDir(f, Dir(dst))
    THEN Fail(f)
    ELSE Ok([q \in DOMAIN f \cup {dst} |-> IF q = dst THEN f[src] ELSE f[q]])

\* os.Symlink: the new name must not exist
Symlink(f, target, dst) ==
    IF dst \in DOMAIN f \/ ~IsDir(f, Dir(dst)) THEN Fail(f)
    ELSE Ok([q \in DOMAIN f \cup {dst} |->
                IF q = dst THEN [kind |-> "symlink", content |-> target, perm |-> 0]
                ELSE f[q]])

\* the one element of a singleton set
The(S) == CHOOSE v \in S : TRUE

\* replicateFile
replicateFile(f, src, dst, config, priv) ==
    The({IF prep.err THEN Res(f, TRUE, {})
         ELSE IF config.fileMode = copyMode
         THEN IF src \notin DOMAIN prep.fs \/ prep.fs[src].kind # "file"
              THEN Res(prep.fs, TRUE, {})
              ELSE The({Res(c.fs, c.err, IF c.err THEN {} ELSE {dst}) :
                        c \in {createFile(prep.fs, prep.fs[src].content,
                                          prep.fs[src].perm, dst, priv)}})
         ELSE IF config.fileMode = hardlinkMode
         THEN The({Res(l.fs, l.err, IF l.err THEN {} ELSE {dst}) :
                   l \in {Link(prep.fs, src, dst)}})
         ELSE IF config.fileMode = softlinkMode
         THEN The({Res(l.fs, l.err, IF l.err THEN {} ELSE {dst}) :
                   l \in {Symlink(prep.fs, src, dst)}})
         ELSE Res(prep.fs, TRUE, {}) :
         prep \in {replicatePrepare(f, dst, config)}})

\* the walk of replicateDir: the callback on each file in turn, stopping at
\* the first error
RECURSIVE walkCopy(_, _, _, _, _, _)
walkCopy(r, files, src, dst, config, priv) ==
    IF r.err \/ files = <<>> THEN r
    ELSE The({walkCopy(Res(one.fs, one.err, r.wrote \cup one.wrote),
                       Tail(files), src, dst, config, priv) :
              one \in {replicateFile(r.fs, Head(files),
                                     Join2(dst, Rel(src, Head(files))), config, priv)}})

\* replicateDir
replicateDir(f, src, dst, config, priv) ==
    The({IF prep.err THEN Res(f, TRUE, {})
         ELSE IF config.dirMode = copyMode
         THEN walkCopy(Res(prep.fs, FALSE, {}), WalkFiles(prep.fs, src),
                       src, dst, config, priv)
         ELSE IF config.dirMode = hardlinkMode
         THEN The({Res(l.fs, l.err, {}) : l \in {Link(prep.fs, src, dst)}})
         ELSE IF config.dirMode = softlinkMode
         THEN The({Res(l.fs, l.err, {}) : l \in {Symlink(prep.fs, src, dst)}})
         ELSE Res(prep.fs, TRUE, {}) :
         prep \in {replicatePrepare(f, dst, config)}})

\* a replicateTree that keeps what is at the destination
replicateTree_KeepDst(f, src, dst, config, priv) ==
    IF ~Exists(f, src) THEN Res(f, TRUE, {})
    ELSE IF IsDir(f, src) THEN replicateDir(f, src, dst, config, priv)
    ELSE replicateFile(f, src, dst, config, priv)

\* replicateTree: os.RemoveAll(dst), then the source is resolved and
\* classified (the modelled trees hold no symbolic links)
replicateTree(f, src, dst, config, priv) ==
    The({IF ~Exists(cleared, src) THEN Res(cleared, TRUE, {})
         ELSE IF IsDir(cleared, src) THEN replicateDir(cleared, src, dst, config, priv)
         ELSE replicateFile(cleared, src, dst, config, priv) :
         cleared \in {RemoveAll(f, dst).fs}})

\* a loop over config.paths that goes on after a failure
RECURSIVE replicatePathsLoop_KeepGoing(_, _, _, _, _, _)
replicatePathsLoop_KeepGoing(r, paths, src, dst, config, priv) ==
    IF paths = <<>> THEN r
    ELSE The({replicatePathsLoop_KeepGoing(
                  Res(one.fs, r.err \/ one.err, r.wrote \cup one.wrote),
                  Tail(paths), src, dst, config, priv) :
              one \in {replicateTree(r.fs, Join2(src, Head(paths)),
                                     Join2(dst, Head(paths)), config, priv)}})

\* the loop of filesystemReplicator.Replicate over config.paths
RECURSIVE replicatePathsLoop(_, _, _, _, _, _)
replicatePathsLoop(r, paths, src, dst, config, priv) ==
    IF r.err \/ paths = <<>> THEN r
    ELSE The({replicatePathsLoop(Res(one.fs, one.err, r.wrote \cup one.wrote),
                                 Tail(paths), src, dst, config, priv) :
              one \in {replicateTree(r.fs, Join2(src, Head(paths)),
                                     Join2(dst, Head(paths)), config, priv)}})

\* filesystemReplicator.Replicate
filesystemReplicate(f, src, dst, config, priv) ==
    IF Len(config.paths) = 0 THEN replicateTree(f, src, dst, config, priv)
    ELSE replicatePathsLoop(Res(f, FALSE, {}), config.paths, src, dst, config, priv)

\* one entry of a zip file: zip.File
Entry(name, isDir, content, perm) ==
    [name |-> name, isDir |-> isDir, content |-> content, perm |-> perm]

\* a selection that takes every entry when there is no filter
Selected_AllWhenEmpty(entry, paths) ==
    paths = <<>> \/ \E i \in 1..Len(paths) : HasPrefix(entry.name, paths[i])

\* an entry is selected when some filter is a prefix of its name
Selected(entry, paths) ==
    \E i \in 1..Len(paths) : HasPrefix(entry.name, paths[i])

\* env.go lines 536-552: files, the selected file entries in archive order
zipFiles(entries, paths) ==
    SelectSeq(entries, LAMBDA en : Selected(en, paths) /\ ~en.isDir)

\* env.go lines 536-552: dirs, the selected directory entries and the
\* directories of the selected file entries
zipDirs(entries, paths) ==
    {IF entries[i].isDir THEN entries[i].name ELSE Dir(entries[i].name) :
        i \in {j \in 1..Len(entries) : Selected(entries[j], paths)}}

\* env.go lines 568-573: replicatePrepare for each of dirs, in the order the
\* map iteration yields them
RECURSIVE zipPrepareLoop(_, _, _, _)
zipPrepareLoop(r, order, dst, config) ==
    IF r.err \/ order = <<>> THEN r
    ELSE LET prep == replicatePrepare(r.fs, Join2(dst, Head(order)), config)
         IN  zipPrepareLoop(Res(prep.fs, prep.err, r.wrote), Tail(order), dst, config)

\* env.go lines 554-566: extract
extract(f, file, dst, priv) ==
    LET to == Join2(dst, file.name)
        made == MkdirAll(f, Dir(to))
    IN  IF made.err THEN Res(f, TRUE, {})
        ELSE LET c == createFile(made.fs, file.content, file.perm, to, priv)
             IN  Res(c.fs, c.err, IF c.err THEN {} ELSE {to})

\* env.go lines 575-579
RECURSIVE zipExtractLoop(_, _, _, _)
zipExtractLoop(r, files, dst, priv) ==
    IF r.err \/ files = <<>> THEN r
    ELSE LET one == extract(r.fs, Head(files), dst, priv)
         IN  zipExtractLoop(Res(one.fs, one.err, r.wrote \cup one.wrote),
                            Tail(files), dst, priv)

\* the orders a range over the map dirs may take
Orders(S) ==
    {o \in [1..Cardinality(S) -> S] : \A i, j \in 1..Cardinality(S) : o[i] = o[j] => i = j}

\* zipReplicator.Replicate; opened is whether zip.OpenReader succeeded
zipReplicate(f, opened, entries, order, dst, config, priv) ==
    IF ~opened THEN Res(f, TRUE, {})
    ELSE zipExtractLoop(zipPrepareLoop(Res(f, FALSE, {}), order, dst, config),
                        zipFiles(entries, config.paths), dst, priv)

\* the arguments of the modelled calls: replicate(SrcRoot, DstRoot, ...)
SrcRoot == <<"s">>
DstRoot == <<"d">>
ZipPath == <<"z">>
MissingZip == <<"n">>

P_a == <<"a">>
P_ab == <<"a", "/", "b">>
P_c == <<"c">>
P_m == <<"m">>

\* the lists handed to replicatePaths (none, one filter, two filters, and a
\* list with a path the source does not have between two that it has)
FilterLists == {<<>>, <<P_a>>, <<P_ab>>, <<P_c, P_a>>, <<P_c, P_m, P_a>>}

\* the source tree: s/a/x, s/a/b/y (read-only), s/ab/z (executable), s/c and
\* the empty directory s/e; and the zip file z next to it
SourceFs ==
    LET file == [p \in {<<"s", "/", "a", "/", "x">>, <<"s", "/", "a", "/", "b", "/", "y">>,
                        <<"s", "/", "a", "b", "/", "z">>, <<"s", "/", "c">>, ZipPath} |->
                    IF p = <<"s", "/", "a", "/", "x">> THEN FileNode(<<"x">>, 420)
                    ELSE IF p = <<"s", "/", "a", "/", "b", "/", "y">> THEN FileNode(<<"y">>, 292)
                    ELSE IF p = <<"s", "/", "a", "b", "/", "z">> THEN FileNode(<<"z">>, 493)
                    ELSE IF p = <<"s", "/", "c">> THEN FileNode(<<"c">>, 420)
                    ELSE FileNode(<<"P", "K">>, 420)]
        dirs == {<<"s">>, <<"s", "/", "a">>, <<"s", "/", "a", "/", "b">>,
                 <<"s", "/", "a", "b">>, <<"s", "/", "e">>}
    IN  [p \in DOMAIN file \cup dirs |-> IF p \in dirs THEN DirNode ELSE file[p]]

\* the entries of an archive that has a directory entry
ZipEntriesWithDirs ==
    {Entry(<<"a", "/", "e", "/">>, TRUE, <<>>, 493),
     Entry(<<"a", "/", "x">>, FALSE, <<"X">>, 420),
     Entry(<<"a", "b", "/", "z">>, FALSE, <<"Z">>, 493)}

Reverse(seq) == [i \in 1..Len(seq) |-> seq[Len(seq) + 1 - i]]

\* the archives: entries in the order of the tree walk, in the opposite
\* order, and with the directory entry before, between and after the files
Archives ==
    LET flat == <<Entry(<<"a", "/", "b", "/", "y">>, FALSE, <<"Y">>, 292),
                  Entry(<<"a", "/", "x">>, FALSE, <<"X">>, 420),
                  Entry(<<"a", "b", "/", "z">>, FALSE, <<"Z">>, 493),
                  Entry(<<"c">>, FALSE, <<"C">>, 420)>>
    IN  {flat, Reverse(flat)} \cup Orders(ZipEntriesWithDirs)

\* the source files that get deleted between replications
RemovableFiles == {<<"s", "/", "a", "/", "x">>, <<"s", "/", "c">>}

NoRep ==
    [kind |-> "none", paths |-> <<>>, zip |-> <<>>, err |-> FALSE, pre |-> NoFs,
     wrote |-> {}]

\* zip.OpenReader succeeds on the zip file
CanOpen(f, zip) == zip \in DOMAIN f /\ f[zip].kind = "file"

\* the modelled calls: the options, and whether the process may overwrite
\* read-only files (which only a replication from an archive can meet); the
\* missing zip file is tried once, since it fails before the filters are read
ReplicateCalls ==
    {c \in [paths : FilterLists, zip : {<<>>, ZipPath, MissingZip}, priv : BOOLEAN] :
        /\ c.zip = <<>> => ~c.priv
        /\ c.zip = MissingZip => (~c.priv /\ c.paths = <<>>)}

\* replicate(SrcRoot, DstRoot, replicatePaths(paths...)) and, with a zip name,
\* replicateFromZip(zip)
Replicate ==
    /\ ncalls < MaxCalls
    /\ ncalls' = ncalls + 1
    /\ \E c \in ReplicateCalls :
        LET config == Config(c.paths, c.zip)
        IN  IF config.zip = <<>>
            THEN \E r \in {filesystemReplicate(fs, SrcRoot, DstRoot, config, c.priv)} :
                     /\ fs' = r.fs
                     /\ rep' = [kind |-> "fs", paths |-> c.paths, zip |-> c.zip, err |-> r.err,
                                pre |-> fs, wrote |-> r.wrote]
            ELSE \E order \in Orders(zipDirs(archive, config.paths)) :
                 \E r \in {zipReplicate(fs, CanOpen(fs, config.zip), archive, order,
                                        DstRoot, config, c.priv)} :
                     /\ fs' = r.fs
                     /\ rep' = [kind |-> "zip", paths |-> c.paths, zip |-> c.zip, err |-> r.err,
                                pre |-> fs, wrote |-> r.wrote]
    /\ UNCHANGED <<archive, stdlibVars, workVars, argVars>>

\* between two replications a file of the source tree is deleted
RemoveSourceFile ==
    /\ \E p \in DOMAIN fs \cap RemovableFiles :
        /\ fs[p].kind = "file"
        /\ fs' = Without(fs, {p})
    /\ rep' = NoRep
    /\ UNCHANGED <<archive, ncalls, stdlibVars, workVars, argVars>>

ReplicateNext == Replicate \/ RemoveSourceFile

----------------------------------------------------------------------------
(* Argument lists: readParamsFiles, abs, absArgs (go/tools/builders/env.go) *)

MaxParamArgs == 3
MaxAbsArgs == 3

\* "-param="
ParamPrefix == <<"-", "p", "a", "r", "a", "m", "=">>

\* "__BAZEL_"
BazelPrefix == <<"_", "_", "B", "A", "Z", "E", "L", "_">>

Newline == "\n"

NoRet == [op |-> "none", pre |-> <<>>, res |-> <<>>, err |-> FALSE]

\* os.Getwd: the working directory, or an error
WorkingDir == [ok |-> TRUE, path |-> <<"/", "w">>]
NoWorkingDir == [ok |-> FALSE, path |-> <<>>]

\* all sequences over S of length at most n
RECURSIVE SeqsUpTo(_, _)
SeqsUpTo(S, n) ==
    IF n = 0 THEN {<<>>}
    ELSE SeqsUpTo(S, n - 1) \cup
         {Append(q, x) : q \in {p \in SeqsUpTo(S, n - 1) : Len(p) = n - 1}, x \in S}

\* index of the first occurrence of the character c in s, 0 when there is none
IndexByte(s, c) ==
    LET idx == {i \in 1..Len(s) : s[i] = c}
    IN  IF idx = {} THEN 0 ELSE CHOOSE i \in idx : \A j \in idx : i <= j

\* strings.Split(s, sep) for a separator of one character
RECURSIVE stringsSplit(_, _)
stringsSplit(s, sep) ==
    IF IndexByte(s, sep) = 0 THEN <<s>>
    ELSE <<SubSeq(s, 1, IndexByte(s, sep) - 1)>> \o
         stringsSplit(SubSeq(s, IndexByte(s, sep) + 1, Len(s)), sep)

\* ioutil.ReadFile: the content of a regular file, or an error
ReadFile(f, fileName) ==
    IF fileName # <<>> /\ Clean(fileName) \in DOMAIN f /\ f[Clean(fileName)].kind = "file"
    THEN [content |-> f[Clean(fileName)].content, err |-> FALSE]
    ELSE [content |-> <<>>, err |-> TRUE]

\* env.go lines 178-183: the indices of the "-param=" arguments, ascending
RECURSIVE paramsIndices(_, _)
paramsIndices(a, i) ==
    IF i > Len(a) THEN <<>>
    ELSE IF HasPrefix(a[i], ParamPrefix) THEN <<i>> \o paramsIndices(a, i + 1)
    ELSE paramsIndices(a, i + 1)

\* env.go lines 198-202 without the test for a final empty line
fileArgs_KeepLast(content) == stringsSplit(content, Newline)

\* env.go lines 198-202: the lines of the file, a final empty line dropped
fileArgs(content) ==
    IF stringsSplit(content, Newline)[Len(stringsSplit(content, Newline))] = <<>>
    THEN SubSeq(stringsSplit(content, Newline), 1, Len(stringsSplit(content, Newline)) - 1)
    ELSE stringsSplit(content, Newline)

\* env.go lines 189-204: the loop over paramsIndices; last counts from 0 as
\* in the code, so args[last:pi] is SubSeq(a, last + 1, pi - 1) here
RECURSIVE expandLoop(_, _, _, _, _)
expandLoop(f, a, indices, expandedArgs, last) ==
    IF indices = <<>>
    THEN [res |-> expandedArgs \o SubSeq(a, last + 1, Len(a)), err |-> FALSE]
    ELSE IF ReadFile(f, sliceFrom(a[Head(indices)], Len(ParamPrefix))).err
    THEN [res |-> <<>>, err |-> TRUE]
    ELSE expandLoop(f, a, Tail(indices),
                    expandedArgs \o SubSeq(a, last + 1, Head(indices) - 1) \o
                        fileArgs(ReadFile(f, sliceFrom(a[Head(indices)],
                                                       Len(ParamPrefix))).content),
                    Head(indices))

\* readParamsFiles
readParamsFiles(f, a) ==
    IF Len(paramsIndices(a, 1)) = 0 THEN [res |-> a, err |-> FALSE]
    ELSE expandLoop(f, a, paramsIndices(a, 1), <<>>, 0)

\* filepath.IsAbs
IsAbs(path) == HasPrefix(path, Slash)

\* filepath.Abs: Clean of an absolute path, else the path joined to the
\* working directory; an error when os.Getwd fails
filepathAbs(path, wd) ==
    IF IsAbs(path) THEN [path |-> Clean(path), err |-> FALSE]
    ELSE IF ~wd.ok THEN [path |-> <<>>, err |-> TRUE]
    ELSE [path |-> Join2(wd.path, path), err |-> FALSE]

\* an abs that has no exception for "__BAZEL_"
abs_NoSentinel(path, wd) ==
    IF filepathAbs(path, wd).err THEN path ELSE filepathAbs(path, wd).path

\* abs
abs(path, wd) ==
    IF HasPrefix(path, BazelPrefix) THEN path
    ELSE IF filepathAbs(path, wd).err THEN path
    ELSE filepathAbs(path, wd).path

\* env.go lines 251-267: the loop over flags for one argument; k is the index
\* of the flag tried next
RECURSIVE absFlag(_, _, _, _)
absFlag(arg, fl, k, wd) ==
    IF k > Len(fl) THEN [arg |-> arg, absNext |-> FALSE]
    ELSE IF ~HasPrefix(arg, fl[k]) THEN absFlag(arg, fl, k + 1, wd)
    ELSE IF Len(sliceFrom(arg, Len(fl[k]))) = 0 THEN [arg |-> arg, absNext |-> TRUE]
    ELSE IF sliceFrom(arg, Len(fl[k]))[1] = "="
    THEN [arg |-> fl[k] \o <<"=">> \o abs(sliceFrom(arg, Len(fl[k]) + 1), wd),
          absNext |-> FALSE]
    ELSE [arg |-> fl[k] \o abs(sliceFrom(arg, Len(fl[k])), wd), absNext |-> FALSE]

\* env.go lines 244-268: the loop over args; done is args[:i] as rewritten
RECURSIVE absLoop(_, _, _, _, _)
absLoop(done, rest, absNext, fl, wd) ==
    IF rest = <<>> THEN done
    ELSE IF absNext
    THEN absLoop(Append(done, abs(Head(rest), wd)), Tail(rest), FALSE, fl, wd)
    ELSE absLoop(Append(done, absFlag(Head(rest), fl, 1, wd).arg), Tail(rest),
                 absFlag(Head(rest), fl, 1, wd).absNext, fl, wd)

\* absArgs: args as the call leaves it
absArgs(a, fl, wd) == absLoop(<<>>, a, FALSE, fl, wd)

\* the tokens of the modelled argument lists: two plain arguments, the
\* parameter files p and q, a file that does not exist, an empty file name,
\* and an argument that only resembles the prefix
ParamTokens ==
    {<<"-", "a">>, <<"b">>,
     ParamPrefix \o <<"p">>, ParamPrefix \o <<"q">>, ParamPrefix \o <<"n">>,
     ParamPrefix, <<"-", "p", "a", "r", "a", "m">>}

\* the contents of the parameter file p: empty, without and with a final
\* newline, with a blank line in the middle, with two final newlines, and a
\* line that is itself a -param= argument
ParamContents ==
    {<<>>, <<"a">>, <<"a", Newline>>, <<"a", Newline, "b", Newline>>,
     <<"a", Newline, Newline, "b", Newline>>, <<"a", Newline, Newline>>,
     ParamPrefix \o <<"q", Newline>>}

\* the file system of the builder: the parameter files p and q
ParamFs(content) ==
    [path \in {<<"p">>, <<"q">>} |->
        IF path = <<"p">> THEN FileNode(content, 420)
        ELSE FileNode(<<"c", Newline, "d">>, 420)]

\* a builder calls readParamsFiles(args)
ReadParams ==
    /\ ret.op = "none"
    /\ \E r \in {readParamsFiles(fs, argv)} :
           ret' = [op |-> "readParamsFiles", pre |-> argv, res |-> r.res, err |-> r.err]
    /\ UNCHANGED <<argv, flags, cwd, fs, stdlibVars, workVars, repVars>>

ParamsNext == ReadParams

\* the flags of the modelled absArgs calls
F_I == <<"-", "I">>
F_L == <<"-", "L">>

FlagLists == {<<>>, <<F_I>>, <<F_I, F_L>>, <<F_I \o Slash, F_I>>, <<F_I, F_I \o Slash>>}

\* the tokens of the modelled argument lists: bare flags, values joined to a
\* flag directly and by "=", relative and absolute paths, paths that Clean
\* shortens, values with the "__BAZEL_" prefix, and an unrelated option
AbsTokens ==
    {F_I, F_I \o <<"r">>, F_I \o <<"=", "r">>, F_L \o <<"/", "a", "/", ".", ".", "/", "b">>,
     <<"r", "/", "s">>, BazelPrefix \o <<"X">>, F_I \o BazelPrefix \o <<"X">>,
     F_L \o <<"=">> \o BazelPrefix \o <<"X">>, <<"-", "o">>}

\* a builder calls absArgs(args, flags); args is rewritten in place
AbsArgs ==
    /\ \E r \in {absArgs(argv, flags, cwd)} :
           /\ argv' = r
           /\ ret' = [op |-> "absArgs", pre |-> argv, res |-> r, err |-> FALSE]
    /\ UNCHANGED <<flags, cwd, fs, stdlibVars, workVars, repVars>>

AbsNext == AbsArgs

----------------------------------------------------------------------------
(* Specifications: one per component; the other components stay idle       *)

\* the context of a rule that has not resolved its standard library yet
IdleGo == CHOOSE g \in GoContexts : TRUE

\* emit_stdlib is about to be called on some context
StdlibInit ==
    /\ go \in GoContexts
    /\ actions = <<>>
    /\ stdlib = NoStdLib
    /\ fs = NoFs
    /\ e = NewEnv(FALSE, FALSE)
    /\ returns = <<>>
    /\ cleanups = <<>>
    /\ created = {}
    /\ logged = <<>>
    /\ invoked = NoInvoke
    /\ archive = <<>>
    /\ rep = NoRep
    /\ ncalls = 0
    /\ argv = <<>>
    /\ flags = <<>>
    /\ cwd = WorkingDir
    /\ ret = NoRet

SpecStdlib == StdlibInit /\ [][StdlibNext]_vars

\* a builder has parsed its flags into a fresh env
WorkInit ==
    /\ e \in {NewEnv(work, v) : work \in BOOLEAN, v \in BOOLEAN}
    /\ fs \in {TempFs({}), TempFs({1})}
    /\ returns = <<>>
    /\ cleanups = <<>>
    /\ created = {}
    /\ logged = <<>>
    /\ invoked = NoInvoke
    /\ go = IdleGo
    /\ actions = <<>>
    /\ stdlib = NoStdLib
    /\ archive = <<>>
    /\ rep = NoRep
    /\ ncalls = 0
    /\ argv = <<>>
    /\ flags = <<>>
    /\ cwd = WorkingDir
    /\ ret = NoRet

SpecWork == WorkInit /\ [][WorkNext]_vars

\* a source tree and its archive, and nothing at the destination yet
ReplicateInit ==
    /\ fs = SourceFs
    /\ archive \in Archives
    /\ rep = NoRep
    /\ ncalls = 0
    /\ go = IdleGo
    /\ actions = <<>>
    /\ stdlib = NoStdLib
    /\ e = NewEnv(FALSE, FALSE)
    /\ returns = <<>>
    /\ cleanups = <<>>
    /\ created = {}
    /\ logged = <<>>
    /\ invoked = NoInvoke
    /\ argv = <<>>
    /\ flags = <<>>
    /\ cwd = WorkingDir
    /\ ret = NoRet

SpecReplicate == ReplicateInit /\ [][ReplicateNext]_vars

\* a builder is about to expand the parameter files of its argument list
ParamsInit ==
    /\ argv \in SeqsUpTo(ParamTokens, MaxParamArgs)
    /\ fs \in {ParamFs(content) : content \in ParamContents}
    /\ flags = <<>>
    /\ cwd = WorkingDir
    /\ ret = NoRet
    /\ go = IdleGo
    /\ actions = <<>>
    /\ stdlib = NoStdLib
    /\ e = NewEnv(FALSE, FALSE)
    /\ returns = <<>>
    /\ cleanups = <<>>
    /\ created = {}
    /\ logged = <<>>
    /\ invoked = NoInvoke
    /\ archive = <<>>
    /\ rep = NoRep
    /\ ncalls = 0

SpecParams == ParamsInit /\ [][ParamsNext]_vars

\* a builder is about to make the paths of its argument list absolute
AbsInit ==
    /\ argv \in SeqsUpTo(AbsTokens, MaxAbsArgs)
    /\ flags \in FlagLists
    /\ cwd \in {WorkingDir, NoWorkingDir}
    /\ ret = NoRet
    /\ fs = NoFs
    /\ go = IdleGo
    /\ actions = <<>>
    /\ stdlib = NoStdLib
    /\ e = NewEnv(FALSE, FALSE)
    /\ returns = <<>>
    /\ cleanups = <<>>
    /\ created = {}
    /\ logged = <<>>
    /\ invoked = NoInvoke
    /\ archive = <<>>
    /\ rep = NoRep
    /\ ncalls = 0

SpecAbs == AbsInit /\ [][AbsNext]_vars

----------------------------------------------------------------------------
(* Properties of the provisioner                                           *)

Provisioned == stdlib # NoStdLib

\* the six reuse conditions, as the specification lists them
NativeMode ==
    /\ go.mode.goos = go.sdk.goos
    /\ go.mode.goarch = go.sdk.goarch
    /\ go.mode.race = FALSE
    /\ go.mode.msan = FALSE
    /\ go.mode.pure = FALSE
    /\ go.mode.link = "normal"

SdkAliased == stdlib.root_file = go.sdk.root_file /\ stdlib.libs = go.sdk.libs

Issued(mnemonic) == {i \in 1..Len(actions) : actions[i].mnemonic = mnemonic}

\* C1: provisioning returns the SDK's root marker and archives with no
\* action issued if and only if the mode is the SDK's native one (same os and
\* arch, no race, no msan, not pure, normal link mode); every other mode
\* issues the GoStdlib action and never returns the SDK-aliased result.
C1_ReuseIffNative ==
    Provisioned =>
        /\ (SdkAliased /\ actions = <<>>) <=> NativeMode
        /\ ~NativeMode => (Issued("GoStdlib") # {} /\ ~SdkAliased)

C1_Witness == Provisioned /\ NativeMode /\ SdkAliased /\ actions = <<>>

\* the strings of a list written one after the other with one space between
RECURSIVE SpaceSeparated(_, _)
SpaceSeparated(list, i) ==
    IF i > Len(list) THEN <<>>
    ELSE (IF i > 1 THEN <<" ">> ELSE <<>>) \o list[i] \o SpaceSeparated(list, i + 1)

\* C2: the environment of every GoStdlib action has CGO_ENABLED=0 exactly
\* when the mode is pure, and otherwise CGO_ENABLED=1 with CC the native
\* compiler path and CGO_CFLAGS / CGO_LDFLAGS the space-joined native compile
\* options / link flags.
C2_CgoEnvironment ==
    \A i \in Issued("GoStdlib") :
        LET env == actions[i].env
        IN  /\ "CGO_ENABLED" \in DOMAIN env
            /\ (env["CGO_ENABLED"] = <<"0">>) <=> go.mode.pure
            /\ ~go.mode.pure =>
                /\ env["CGO_ENABLED"] = <<"1">>
                /\ {"CC", "CGO_CFLAGS", "CGO_LDFLAGS"} \subseteq DOMAIN env
                /\ env["CC"] = go.cgo_tools.c_compiler_path
                /\ env["CGO_CFLAGS"] = SpaceSeparated(go.cgo_tools.c_compile_options, 1)
                /\ env["CGO_LDFLAGS"] = SpaceSeparated(go.cgo_tools.ld_flags, 1)

C2_Witness ==
    /\ Issued("GoStdlib") # {}
    /\ ~go.mode.pure
    /\ Len(go.cgo_tools.c_compile_options) > 1
    /\ Len(go.cgo_tools.ld_flags) > 1

OriginalSdkFiles ==
    go.sdk.srcs \o go.sdk.headers \o go.sdk.tools \o <<go.sdk.go>> \o <<go.sdk.root_file>>

Range(seq) == {seq[i] : i \in 1..Len(seq)}

HasZipper == go.zipper # <<>>

ArchivePath == go.outdir \o Slash \o N_sdkzip

\* the argument list holds flag immediately followed by value
HasFlagValue(arguments, flag, value) ==
    \E k \in 1..(Len(arguments) - 1) : arguments[k] = flag /\ arguments[k + 1] = value

\* C3: the GoStdlib action's inputs are the SDK inputs, then the native
\* toolchain files, then the package manifest; the SDK inputs are the single
\* archive sdk.zip (none of the original files) when a packaging tool is
\* available and the original files otherwise; the GoStdlibZip action over
\* all the original files is issued, and -sdkzip <archive> is passed, if and
\* only if the packaging tool is available.
C3_DeclaredInputs ==
    \A i \in Issued("GoStdlib") :
        LET a == actions[i]
            tail == go.crosstool \o <<go.sdk.package_list>>
        IN  /\ HasZipper =>
                /\ a.inputs = <<File(ArchivePath)>> \o tail
                /\ Range(a.inputs) \cap Range(OriginalSdkFiles) = {}
            /\ ~HasZipper => a.inputs = OriginalSdkFiles \o tail
            /\ (Issued("GoStdlibZip") # {}) <=> HasZipper
            /\ \A z \in Issued("GoStdlibZip") :
                /\ actions[z].inputs = OriginalSdkFiles
                /\ actions[z].outputs = <<File(ArchivePath)>>
                /\ z < i
            /\ HasFlagValue(a.arguments, T_sdkzip, ArchivePath) <=> HasZipper
            /\ (T_sdkzip \in Range(a.arguments)) <=> HasZipper

C3_Witness == Issued("GoStdlib") # {} /\ Issued("GoStdlibZip") # {} /\ HasZipper

\* C4: the packaging action has one entry argument rel=path per SDK input
\* file, where rel is the input's path relative to the directory holding the
\* SDK's root file.
C4_ArchiveEntries ==
    \A z \in Issued("GoStdlibZip") :
        LET args == actions[z].arguments
            root == dirname(go.sdk.root_file)
        IN  /\ Len(args) = 2 + Len(OriginalSdkFiles)
            /\ \A k \in 1..Len(OriginalSdkFiles) :
                LET path == OriginalSdkFiles[k].path
                IN  \E rel \in {SubSeq(path, n, Len(path)) : n \in 1..Len(path)} :
                        /\ root \o Slash \o rel = path
                        /\ args[2 + k] = rel \o <<"=">> \o path

C4_Witness ==
    /\ Issued("GoStdlibZip") # {}
    /\ Len(dirname(go.sdk.root_file)) > 1

RootMarker == File(go.outdir \o Slash \o N_ROOT)
PkgDir == File(go.outdir \o Slash \o N_pkg)
SrcDir == File(go.outdir \o Slash \o N_src)

\* C5: on the build path the empty root marker is written before the
\* packaging and GoStdlib actions are issued and depends on neither; the
\* GoStdlib action's outputs are exactly pkg and src; the result has the new
\* root marker as root and pkg as its only library entry.
C5_RootMarkerFirst ==
    (Provisioned /\ actions # <<>>) =>
        /\ \E w \in 1..Len(actions) :
            /\ actions[w].kind = "write"
            /\ actions[w].outputs = <<RootMarker>>
            /\ actions[w].content = <<>>
            /\ actions[w].inputs = <<>>
            /\ \A r \in 1..Len(actions) : actions[r].kind = "run" => w < r
        /\ \A r \in 1..Len(actions) :
            actions[r].kind = "run" => RootMarker \notin Range(actions[r].outputs)
        /\ Issued("GoStdlib") # {}
        /\ \A i \in Issued("GoStdlib") : actions[i].outputs = <<PkgDir, SrcDir>>
        /\ stdlib = [root_file |-> RootMarker, libs |-> <<PkgDir>>]

C5_Witness ==
    /\ Provisioned
    /\ Issued("GoStdlibZip") # {}
    /\ Issued("GoStdlib") # {}
    /\ \E w \in 1..Len(actions) : actions[w].kind = "write"

----------------------------------------------------------------------------
(* Properties of env.workDir                                               *)

Succeeded == {i \in 1..Len(returns) : ~returns[i].err}

BaseName(p) == SubSeq(p, LastSlash(p) + 1, Len(p))

\* C9: at most one scratch directory is ever created per env; the first
\* successful workDir call creates it under a name that was not in use and
\* starts with rules_go_work-, and every successful call returns that path.
C9_OneScratchDir ==
    /\ Cardinality(created) <= 1
    /\ \A c \in created : ~c.existed
    /\ (Succeeded # {}) <=> (created # {})
    /\ \A i \in Succeeded :
        /\ returns[i].path \in {c.path : c \in created}
        /\ HasPrefix(BaseName(returns[i].path),
                     <<"r", "u", "l", "e", "s", "_", "g", "o", "_", "w", "o", "r", "k", "-">>)
        /\ \A j \in Succeeded : returns[j].path = returns[i].path

C9_Witness ==
    /\ Cardinality(Succeeded) >= 2
    /\ \E i \in 1..Len(returns) : returns[i].err
    /\ Cardinality(created) = 1

\* nothing at or below path p exists
TreeGone(f, p) == \A q \in DOMAIN f : ~IsUnder(q, p)

\* C10 as stated: the cleanup returned by any successful workDir call, the
\* first or a later one, removes the whole scratch tree when the work
\* directory is not preserved and changes nothing when it is preserved.
C10_EveryCleanupRemoves ==
    (invoked.i # 0 /\ invoked.i \in Succeeded) =>
        IF e.shouldPreserveWorkDir
        THEN fs = invoked.pre
        ELSE TreeGone(fs, returns[invoked.i].path)

FirstSucceeded == CHOOSE i \in Succeeded : \A j \in Succeeded : i <= j

\* C10 amended: the cleanup returned by the call that created the directory
\* removes the whole scratch tree and nothing else, unless the work directory
\* is preserved, in which case it changes nothing; the cleanup returned by
\* every other call never changes anything.
C10_CreatorCleanupRemoves ==
    invoked.i # 0 =>
        IF invoked.i \in Succeeded /\ invoked.i = FirstSucceeded
           /\ ~e.shouldPreserveWorkDir
        THEN /\ TreeGone(fs, returns[invoked.i].path)
             /\ \A q \in DOMAIN invoked.pre :
                    ~IsUnder(q, returns[invoked.i].path) =>
                        (q \in DOMAIN fs /\ fs[q] = invoked.pre[q])
        ELSE fs = invoked.pre

C10_Witness ==
    /\ invoked.i # 0
    /\ invoked.i \in Succeeded
    /\ invoked.i = FirstSucceeded
    /\ ~e.shouldPreserveWorkDir
    /\ \E q \in DOMAIN invoked.pre :
        /\ q # returns[invoked.i].path
        /\ IsUnder(q, returns[invoked.i].path)
        /\ invoked.pre[q].kind = "file"
    /\ TreeGone(fs, returns[invoked.i].path)

----------------------------------------------------------------------------
(* Properties of replicate                                                 *)

FilesUnder(f, root) ==
    {p \in DOMAIN f : p # root /\ IsUnder(p, root) /\ f[p].kind = "file"}

\* the path below DstRoot that has the relative path p has below SrcRoot
Mirror(p) == DstRoot \o SubSeq(p, Len(SrcRoot) + 1, Len(p))

DefaultCall == rep.kind = "fs" /\ rep.paths = <<>> /\ ~rep.err

\* C6: after replicate(src, dst) with default options the files below dst are
\* exactly the files below src, at the same relative paths, with the same
\* content and permission bits; this also holds when dst held the replica of
\* an earlier state of the source from which a file has since been deleted.
C6_ReplicaMatchesSource ==
    DefaultCall =>
        /\ Cardinality(FilesUnder(fs, DstRoot)) = Cardinality(FilesUnder(fs, SrcRoot))
        /\ \A p \in FilesUnder(fs, SrcRoot) :
            /\ Mirror(p) \in FilesUnder(fs, DstRoot)
            /\ fs[Mirror(p)].content = fs[p].content
            /\ fs[Mirror(p)].perm = fs[p].perm

C6_Witness ==
    /\ DefaultCall
    /\ FilesUnder(fs, SrcRoot) # {}
    /\ \E p \in RemovableFiles :
        /\ p \notin DOMAIN fs
        /\ Mirror(p) \in FilesUnder(rep.pre, DstRoot)
        /\ Mirror(p) \notin DOMAIN fs

\* the files that were below dst before the call and that the call did not write
Leftover == {p \in FilesUnder(rep.pre, DstRoot) : p \notin rep.wrote}

\* C7 as stated: after every successful replicate call, in any of the three
\* modes, no file that was below dst before the call and was not written by
\* the call remains.
C7_NoLeftoverInAnyMode ==
    (rep.kind # "none" /\ ~rep.err) => \A p \in Leftover : p \notin DOMAIN fs

UnderSomeFilter(p) ==
    \E i \in 1..Len(rep.paths) : IsUnder(p, Join2(DstRoot, rep.paths[i]))

\* C7 amended: a successful filesystem replication without filters removes
\* dst recursively first, so no leftover file remains below dst; with filters
\* it removes each dst/p recursively, so no leftover remains below any dst/p,
\* and the files below dst outside every dst/p stay as they were; a
\* replication from an archive removes no tree: every leftover file stays as
\* it was, unless it sits exactly at the path of a selected directory.
C7_RemovalPerMode ==
    (rep.kind # "none" /\ ~rep.err) =>
        \A p \in Leftover :
            IF rep.kind = "fs" /\ rep.paths = <<>> THEN p \notin DOMAIN fs
            ELSE IF rep.kind = "fs"
            THEN IF UnderSomeFilter(p) THEN p \notin DOMAIN fs
                 ELSE p \in DOMAIN fs /\ fs[p] = rep.pre[p]
            ELSE p \in {Join2(DstRoot, d) : d \in zipDirs(archive, rep.paths)}
                 \/ (p \in DOMAIN fs /\ fs[p] = rep.pre[p])

C7_Witness ==
    /\ rep.kind = "fs" /\ rep.paths # <<>> /\ ~rep.err
    /\ \E p \in Leftover : UnderSomeFilter(p) /\ p \notin DOMAIN fs
    /\ \E p \in Leftover : ~UnderSomeFilter(p) /\ p \in DOMAIN fs

\* the file entries of the archive that lie at or below the path P
EntriesUnder(P) ==
    {i \in 1..Len(archive) : ~archive[i].isDir /\ IsUnder(archive[i].name, P)}

\* C8: a successful replication from an archive with the single path filter
\* P writes exactly the file entries at or below P, each at dst/<entry name>
\* with its content and permission bits, below an existing directory.
C8_ExactlyEntriesUnderFilter ==
    (rep.kind = "zip" /\ ~rep.err /\ Len(rep.paths) = 1) =>
        /\ rep.wrote = {DstRoot \o Slash \o archive[i].name : i \in EntriesUnder(rep.paths[1])}
        /\ \A i \in EntriesUnder(rep.paths[1]) :
            LET to == DstRoot \o Slash \o archive[i].name
            IN  /\ to \in DOMAIN fs
                /\ fs[to] = FileNode(archive[i].content, archive[i].perm)
                /\ IsDir(fs, Dir(to))

----------------------------------------------------------------------------
(* Properties of readParamsFiles                                           *)

\* L is the lines of a file with this content: no line holds a newline, and
\* the lines, each ended by a newline (the last one possibly not), make up
\* the content
IsLinesOf(L, content) ==
    /\ \A i \in 1..Len(L) : \A j \in 1..Len(L[i]) : L[i][j] # Newline
    /\ IF content = <<>> \/ content[Len(content)] = Newline
       THEN join(<<Newline>>, Append(L, <<>>)) = content
       ELSE join(<<Newline>>, L) = content

Lines(content) ==
    CHOOSE L \in {SubSeq(stringsSplit(content, Newline), 1, n) :
                     n \in 0..Len(stringsSplit(content, Newline))} :
        IsLinesOf(L, content)

RECURSIVE Flatten(_)
Flatten(pieces) ==
    IF pieces = <<>> THEN <<>> ELSE Head(pieces) \o Flatten(Tail(pieces))

IsParam(token) == HasPrefix(token, ParamPrefix)

ParamFile(token) == SubSeq(token, Len(ParamPrefix) + 1, Len(token))

Readable(token) == ParamFile(token) \in DOMAIN fs /\ fs[ParamFile(token)].kind = "file"

\* C11: readParamsFiles returns the argument list with every -param=<file>
\* token replaced, where it stands, by the lines of the file (one final empty
\* line dropped) and every other token kept in place; a -param= token of the
\* result is a line of a file, never a token of the input; a list with no
\* -param= token is returned as it is; when a named file cannot be read, an
\* error and no list are returned.
C11_ParamsExpanded ==
    ret.op = "readParamsFiles" =>
        IF \E i \in 1..Len(ret.pre) : IsParam(ret.pre[i]) /\ ~Readable(ret.pre[i])
        THEN ret.err /\ ret.res = <<>>
        ELSE /\ ~ret.err
             /\ ret.res = Flatten([i \in 1..Len(ret.pre) |->
                                      IF IsParam(ret.pre[i])
                                      THEN Lines(fs[ParamFile(ret.pre[i])].content)
                                      ELSE <<ret.pre[i]>>])
             /\ \A k \in 1..Len(ret.res) :
                    IsParam(ret.res[k]) =>
                        \E i \in 1..Len(ret.pre) :
                            /\ IsParam(ret.pre[i])
                            /\ ret.res[k] \in Range(Lines(fs[ParamFile(ret.pre[i])].content))
             /\ (\A i \in 1..Len(ret.pre) : ~IsParam(ret.pre[i])) => ret.res = ret.pre

\* a parameter file of two lines was expanded between two plain arguments
C11_Witness ==
    /\ ret.op = "readParamsFiles"
    /\ ret.pre = <<<<"-", "a">>, ParamPrefix \o <<"p">>, <<"b">>>>
    /\ fs[<<"p">>].content = <<"a", Newline, "b", Newline>>
    /\ ret.res = <<<<"-", "a">>, <<"a">>, <<"b">>, <<"b">>>>

\* C12: no blank line of a parameter file becomes an empty-string argument
\* of the expanded argument list.
C12_NoBlankArgument ==
    (ret.op = "readParamsFiles" /\ ~ret.err) =>
        \A k \in 1..Len(ret.res) : ret.res[k] # <<>>

----------------------------------------------------------------------------
(* Properties of absArgs                                                   *)

\* the first flag of the list that the token starts with, 0 when there is none
FirstFlag(token) ==
    LET idx == {k \in 1..Len(flags) : HasPrefix(token, flags[k])}
    IN  IF idx = {} THEN 0 ELSE CHOOSE k \in idx : \A j \in idx : k <= j

\* the token is a flag with no value attached
IsBare(token) == FirstFlag(token) # 0 /\ flags[FirstFlag(token)] = token

\* the token at i is the value of the bare flag before it
RECURSIVE IsFollowing(_, _)
IsFollowing(a, i) == i > 1 /\ IsBare(a[i - 1]) /\ ~IsFollowing(a, i - 1)

\* what stands before the path value in the token at i: nothing when the
\* token follows a bare flag, else the flag and its "=" when there is one
ValuePrefix(a, i) ==
    IF IsFollowing(a, i) THEN <<>>
    ELSE IF sliceFrom(a[i], Len(flags[FirstFlag(a[i])]))[1] = "="
    THEN flags[FirstFlag(a[i])] \o <<"=">>
    ELSE flags[FirstFlag(a[i])]

\* the token at i holds a path value
HasValue(a, i) == IsFollowing(a, i) \/ (FirstFlag(a[i]) # 0 /\ ~IsBare(a[i]))

\* the path made absolute against the working directory
AbsoluteForm(path) ==
    IF IsAbs(path) THEN Clean(path) ELSE Clean(cwd.path \o Slash \o path)

\* the token at i of the result against the token at i of the input; always
\* says whether a value is made absolute even when os.Getwd fails
Rewritten(i, always) ==
    IF ~HasValue(ret.pre, i) THEN ret.res[i] = ret.pre[i]
    ELSE /\ HasPrefix(ret.res[i], ValuePrefix(ret.pre, i))
         /\ LET n == Len(ValuePrefix(ret.pre, i))
                old == sliceFrom(ret.pre[i], n)
                new == sliceFrom(ret.res[i], n)
            IN  IF HasPrefix(old, BazelPrefix) THEN new = old
                ELSE IF always \/ cwd.ok \/ IsAbs(old)
                THEN IsAbs(new) /\ new = AbsoluteForm(old)
                ELSE new = old

\* no flag of the list extends a flag that comes after it
NoFlagExtendsLater ==
    \A j, k \in 1..Len(flags) :
        j < k => ~(HasPrefix(flags[j], flags[k]) /\ flags[j] # flags[k])

\* C13 as stated: for every list of flags, every path value is made
\* absolute, with the flag and separator kept, other tokens and "__BAZEL_"
\* values unchanged, and a second absArgs on the result changes nothing.
C13_AbsoluteAndIdempotent ==
    ret.op = "absArgs" =>
        /\ Len(ret.res) = Len(ret.pre)
        /\ \A i \in 1..Len(ret.pre) : Rewritten(i, TRUE)
        /\ absArgs(ret.res, flags, cwd) = ret.res

\* C13, amended: every path value attached to the first flag its token
\* starts with (or following a bare flag) is made absolute when it is
\* absolute already or the working directory is known, with the flag and
\* separator kept; other tokens and "__BAZEL_" values are unchanged; a second
\* absArgs on the result changes nothing when no flag of the list extends a
\* flag that comes after it.
C13_AbsoluteWhenResolvable ==
    ret.op = "absArgs" =>
        /\ Len(ret.res) = Len(ret.pre)
        /\ \A i \in 1..Len(ret.pre) : Rewritten(i, FALSE)
        /\ NoFlagExtendsLater => absArgs(ret.res, flags, cwd) = ret.res

\* absArgs ran on its own output: a value after a bare flag was made
\* absolute and a "__BAZEL_" value joined to a flag was passed through
C13_Witness ==
    /\ ret.op = "absArgs"
    /\ flags = <<F_I, F_L>>
    /\ cwd.ok
    /\ ret.pre = <<F_I, <<"/", "w", "/", "r", "/", "s">>, F_I \o BazelPrefix \o <<"X">>>>
    /\ ret.res = ret.pre

----------------------------------------------------------------------------
(* Properties of replicate: directories, filters, the empty filter list    *)

ZipCall == rep.kind = "zip" /\ rep.zip = ZipPath

\* C14: in a replication from an archive, after the preparation loop (in any
\* order over the set of directories) and so before the first file is
\* extracted, every selected directory entry and the directory of every
\* selected file entry is a directory at dst/<path>; and after a successful
\* call every selected directory entry is a directory at the destination.
C14_DirectoriesBeforeFiles ==
    (ZipCall /\ ~rep.err) =>
        /\ \A order \in Orders(zipDirs(archive, rep.paths)) :
               \A d \in zipDirs(archive, rep.paths) :
                   IsDir(zipPrepareLoop(Res(rep.pre, FALSE, {}), order, DstRoot,
                                        Config(rep.paths, rep.zip)).fs,
                         Join2(DstRoot, d))
        /\ \A i \in 1..Len(archive) :
               (archive[i].isDir /\ Selected(archive[i], rep.paths)) =>
                   IsDir(fs, Join2(DstRoot, archive[i].name))

\* everything at or below root
TreeAt(f, root) == {p \in DOMAIN f : IsUnder(p, root)}

\* the filters whose source path does not exist
MissingFilters ==
    {i \in 1..Len(rep.paths) : ~Exists(rep.pre, Join2(SrcRoot, rep.paths[i]))}

\* the index of the filter whose replication fails, one past the last filter
\* when none fails
FailingFilter ==
    IF MissingFilters = {} THEN Len(rep.paths) + 1
    ELSE CHOOSE i \in MissingFilters : \A j \in MissingFilters : i <= j

\* C15: a filesystem replication with filters fails exactly when the
\* replication of some filter fails; the filters before the failing one have
\* their files at dst/p as the files at src/p; for the filters after it
\* nothing at or below dst/p is removed, changed or written; the call writes
\* only below the filters before the failing one.
C15_FiltersInOrderAbortOnFailure ==
    (rep.kind = "fs" /\ rep.paths # <<>>) =>
        /\ rep.err <=> MissingFilters # {}
        /\ \A j \in 1..Len(rep.paths) :
            LET from == Join2(SrcRoot, rep.paths[j])
                to == Join2(DstRoot, rep.paths[j])
            IN  IF j < FailingFilter
                THEN /\ \A p \in TreeAt(fs, from) :
                            fs[p].kind = "file" =>
                                (Mirror(p) \in DOMAIN fs /\ fs[Mirror(p)] = fs[p])
                     /\ \A q \in TreeAt(fs, to) :
                            fs[q].kind = "file" =>
                                \E p \in TreeAt(fs, from) : q = Mirror(p)
                ELSE j > FailingFilter =>
                     /\ TreeAt(fs, to) = TreeAt(rep.pre, to)
                     /\ \A q \in TreeAt(fs, to) : fs[q] = rep.pre[q]
        /\ \A q \in rep.wrote :
               \E j \in 1..Len(rep.paths) :
                   j < FailingFilter /\ IsUnder(q, Join2(DstRoot, rep.paths[j]))

\* c was replicated, m failed, and a was not touched: the replica of a file
\* since deleted from the source is still at the destination
C15_Witness ==
    /\ rep.kind = "fs" /\ rep.paths = <<P_c, P_m, P_a>> /\ rep.err
    /\ FailingFilter = 2
    /\ Join2(DstRoot, P_c) \in rep.wrote
    /\ <<"s", "/", "a", "/", "x">> \notin DOMAIN fs
    /\ <<"d", "/", "a", "/", "x">> \in DOMAIN fs

\* C16: with no filter, a filesystem replication that succeeds leaves at dst
\* the files of the whole tree at src, while a replication from an archive
\* succeeds, writes nothing and leaves the file system as it was.
C16_EmptyFilterList ==
    /\ (rep.kind = "fs" /\ rep.paths = <<>> /\ ~rep.err) =>
           /\ FilesUnder(fs, DstRoot) = {Mirror(p) : p \in FilesUnder(fs, SrcRoot)}
           /\ rep.wrote = FilesUnder(fs, DstRoot)
    /\ (ZipCall /\ rep.paths = <<>>) =>
           /\ ~rep.err
           /\ rep.wrote = {}
           /\ fs = rep.pre

\* an archive with entries was replicated with no filter onto a destination
\* that held files
C16_Witness ==
    /\ ZipCall /\ rep.paths = <<>> /\ ~rep.err
    /\ archive # <<>>
    /\ FilesUnder(fs, DstRoot) # {}

----------------------------------------------------------------------------
(* Properties of env.workDir: the recorded path                            *)

\* the call that a workDir step appended to returns
LastReturn == returns[Len(returns)]

\* C17: a workDir call on an env with a recorded path returns that path, no
\* error and a cleanup that does nothing, and changes neither the env nor the
\* file system, even when the directory is gone; a call on an env with no
\* recorded path either fails, returning the empty path and recording
\* nothing, or creates a directory and records it; no step changes a
\* recorded path.
C17_PathNeverReset ==
    [][/\ e.workDirPath # <<>> => e'.workDirPath = e.workDirPath
       /\ Len(returns') = Len(returns) + 1 =>
              IF e.workDirPath # <<>>
              THEN /\ LastReturn' = [path |-> e.workDirPath, err |-> FALSE]
                   /\ cleanups'[Len(cleanups')] = "noop"
                   /\ fs' = fs
                   /\ e' = e
              ELSE IF LastReturn'.err
              THEN /\ LastReturn'.path = <<>>
                   /\ e'.workDirPath = <<>>
                   /\ fs' = fs
              ELSE /\ ~Exists(fs, LastReturn'.path)
                   /\ IsDir(fs', LastReturn'.path)
                   /\ e'.workDirPath = LastReturn'.path]_vars

\* a creation failed, the next call created the directory, its cleanup
\* removed it, and a later call returned the path of the directory that is gone
C17_Witness ==
    /\ Len(returns) = 3
    /\ returns[1].err
    /\ ~returns[2].err
    /\ returns[3] = [path |-> e.workDirPath, err |-> FALSE]
    /\ cleanups[3] = "noop"
    /\ invoked = NoInvoke
    /\ e.workDirPath # <<>>
    /\ ~Exists(fs, e.workDirPath)

====
